---- MODULE Spec2Model ----
(***************************************************************************)
(* Order settlement pipeline of aigccloud-backend.                         *)
(*                                                                         *)
(* The Parse store holds Order objects, one Product, one paying user (with *)
(* an optional inviter) and the IncentiveLog.  Handlers are coroutines:    *)
(* every await on the store, the payment gateway or the chain is a point   *)
(* where another handler may run, so each handler is cut into one action   *)
(* per store access.  Every store write is parse_client.update_object, an  *)
(* unconditional PUT.                                                      *)
(***************************************************************************)
EXTENDS Integers, Sequences, FiniteSets, Bags, TLC

VARIABLES
    orders,     \* Parse class Order: objectId -> fields
    product,    \* the Parse Product a purchase order refers to
    user,       \* the paying Parse user
    balance,    \* coins minted on the chain, per account
    ledger,     \* Parse class IncentiveLog, a bag of entries
    queue,      \* ARQ queue: enqueued process_paid_order jobs per order
    testMode,   \* settings.wechat_test_mode
    limit,      \* number of orders the clients create in this behaviour
    pc,         \* position of each running coroutine
    loc,        \* locals of each running coroutine
    ops,        \* number of handler invocations started so far
    applied,    \* history: times the paid effect of an order was applied (webhook/mock-pay/job)
    swept,      \* history: times the sweeper applied an order's product effect
    call,       \* arguments and node replies of one Web3Client.verify_transfer call
    result,     \* what that call returned
    redis,      \* Redis keys nonce:{nonce} of the Web3 login
    authenticated,  \* history: requests that _verify_web3_signature accepted, per nonce
    daily,      \* the calendar day and the Redis keys daily_claim:{day}:{user}
    task        \* the one Parse AITask: status and executor

vars == <<orders, product, user, balance, ledger, queue, testMode, limit, pc, loc, ops, applied, swept,
          call, result, redis, authenticated, daily, task>>

\* daily claims and the AI task
board == <<daily, task>>

\* state outside the order pipeline
aside == <<call, result, redis, authenticated, board>>

config == <<testMode, limit, aside>>

env == <<queue, config>>

store == <<orders, product, user, balance, ledger>>

----------------------------------------------------------------------------
\* Bounds of the model

Orders == {1, 2, 3}         \* objectIds, handed out in creation order
Procs == {1, 2}             \* coroutines that may be in flight together
MaxOps == 4                 \* handler invocations in one behaviour (in one period, where periods recur)
PollLimit == 2              \* limit=50 of the poller's query, scaled to the model's orders
SweepLimit == 2             \* limit=100 of the sweeper's query, scaled to the model's orders

----------------------------------------------------------------------------
\* Program constants

RechargeAmount == 10        \* amount of the recharge request of the integration test
MonthlyPrice == 29          \* SUBSCRIPTION_PLANS["monthly"]["price"]
MonthlyDays == 30           \* SUBSCRIPTION_PLANS["monthly"]["days"]
MonthlyCoins == 2900        \* SUBSCRIPTION_PLANS["monthly"]["coins"]
DefaultMemberDays == 30     \* plan.get("days", 30) in complete_member_order
ProductPrice == 5           \* price of the modelled Product

OrderTypes == {"subscription", "recharge", "purchase"}

\* OrderStatus of payment.py plus the two strings the sweeper writes
Statuses == {"absent", "pending", "paid", "completed", "payment_failed", "cancelled"}

Accounts == {"user", "inviter", "w1", "w2"}

\* Web3 addresses of the workers that claim and complete the AI task
Workers == {"w1", "w2"}

\* nonces of secrets.token_hex(16); a value is drawn once ("unissued"), is a
\* key of Redis ("stored") and is gone after its deletion or expiry ("deleted")
Nonces == {1, 2}

\* dict.get(key): the value None is 0
DictGet(dict, key) == IF key \in DOMAIN dict THEN dict[key] ELSE 0

\* an Order carries its order number as orderNo (generate_order_no; the model
\* numbers the orders by their objectId)
NoOrder == [status |-> "absent", orderNo |-> 0, type |-> "recharge", amount |-> 0, productId |-> FALSE,
            txHash |-> FALSE, paidAt |-> FALSE, completedAt |-> FALSE, transactionId |-> FALSE,
            failureReason |-> FALSE]

\* locals: the order at hand and the status it was read with, the handler, the
\* batch of a periodic job, the verification result, how the chain call behind
\* it ended, and whether the notification being handled carries a signature
\* that does not verify
NoLoc == [o |-> 0, seen |-> "none", via |-> "none", batch |-> <<>>,
          vr |-> "none", verified |-> FALSE, rpc |-> "none", forged |-> FALSE, polls |-> 0]

----------------------------------------------------------------------------
\* Helpers

\* The IncentiveLog entries written while settling order o with type t
LedgerEntries(o, t) == {e \in BagToSet(ledger) : e.order = o /\ e.type = t}

RECURSIVE SumCopies(_)
SumCopies(S) == IF S = {} THEN 0
                ELSE LET e == CHOOSE x \in S : TRUE
                     IN CopiesIn(e, ledger) + SumCopies(S \ {e})

LedgerCount(o, t) == SumCopies(LedgerEntries(o, t))

\* the entries written for order o that credit the account a
LedgerCountFor(o, a) == SumCopies({e \in BagToSet(ledger) : e.order = o /\ e.userId = a})

\* a coroutine returns (or its exception leaves the handler)
Return(p) == /\ pc' = [pc EXCEPT ![p] = "idle"]
             /\ loc' = [loc EXCEPT ![p] = NoLoc]

Goto(p, label) == pc' = [pc EXCEPT ![p] = label]

\* a new invocation runs in the first free coroutine slot
Begin(p) == /\ pc[p] = "idle"
            /\ \A q \in Procs : q < p => pc[q] # "idle"
            /\ ops < MaxOps
            /\ ops' = ops + 1

\* a PUT that stores the patch as the whole object
UpdateOrderReplaces(o, patch) ==
    orders' = [orders EXCEPT ![o] = [f \in DOMAIN orders[o] |->
                  IF f \in DOMAIN patch THEN patch[f] ELSE NoOrder[f]]]

\* parse_client.update_object("Order", id, patch): a PUT of the patch's fields
UpdateOrder(o, patch) ==
    orders' = [orders EXCEPT ![o] = [f \in DOMAIN orders[o] |->
                  IF f \in DOMAIN patch THEN patch[f] ELSE orders[o][f]]]

\* web3_client.mint(address, amount) followed by create_object("IncentiveLog", ...):
\* mint reports failure in its result and the entry is written either way
MintAndLog(o, account, type, amount, mintOk) ==
    /\ balance' = [balance EXCEPT ![account] = @ + (IF mintOk THEN amount ELSE 0)]
    /\ ledger' = ledger (+) SetToBag({[order |-> o, userId |-> account, type |-> type,
                                       amount |-> amount, minted |-> mintOk]})

----------------------------------------------------------------------------
\* no verify_transfer call made yet
NoCall == [reply |-> [rpc |-> "unset", found |-> FALSE, from |-> "0xab", to |-> "0xab",
                      value |-> "0x0", receipt |-> "none"],
           from_address |-> "0xab", to_address |-> "0xab", amount |-> 0]

NoResult == [success |-> FALSE, verified |-> FALSE, tx_status |-> "none"]

InitOrders(n) ==
    /\ limit = n
    /\ orders = [o \in Orders |-> NoOrder]
    /\ product = [owner |-> "seller", sales |-> 0, purchases |-> 0]
    /\ user \in {[paidExpireAt |-> 0, isPaid |-> FALSE, memberExpireAt |-> 0,
                  memberLevel |-> "normal", hasInviter |-> h,
                  firstRechargeRewarded |-> FALSE] : h \in BOOLEAN}
    /\ balance = [a \in Accounts |-> 0]
    /\ ledger = EmptyBag
    /\ queue = [o \in Orders |-> 0]
    /\ testMode \in BOOLEAN
    /\ pc = [p \in Procs |-> "idle"]
    /\ loc = [p \in Procs |-> NoLoc]
    /\ ops = 0
    /\ applied = [o \in Orders |-> 0]
    /\ swept = [o \in Orders |-> 0]

\* no login nonce issued yet
InitAuth ==
    /\ redis = [n \in Nonces |-> "unissued"]
    /\ authenticated = [n \in Nonces |-> 0]
    /\ daily = [today |-> 1, claimed |-> {}]
    /\ task = [status |-> "pending", executor |-> "none"]

InitWith(n) ==
    /\ InitOrders(n)
    /\ InitAuth
    /\ call = NoCall
    /\ result = NoResult

\* one order, raced by every handler
Init == InitWith(1)

\* two orders, for the batches of the periodic jobs
InitBatch == InitWith(2)

\* more orders than one sweep selects
InitMany == InitWith(SweepLimit + 1)

----------------------------------------------------------------------------
\* Order creation (payment.py).  Amounts are floats of the request body or of
\* the stored Product, read as they come; the model takes them as integers.

RequestAmounts == {-1, 0, 1, 10}

Quantities == {-1, 0, 1, 2}

\* carts of one or two items, each [price, quantity] of the request body
Carts ==
    LET Items == [price : RequestAmounts, quantity : Quantities]
    IN {<<i>> : i \in Items} \cup {<<i, j>> : i \in Items, j \in Items}

\* sum(item.price * item.quantity for item in request.items)
RECURSIVE CartTotal(_)
CartTotal(items) ==
    IF items = <<>> THEN 0
    ELSE Head(items).price * Head(items).quantity + CartTotal(Tail(items))

\* create_order's amount: the plan's price, the Product's price, or request.amount
OrderAmount(t, hasProduct, amount, price) ==
    IF t = "subscription" THEN MonthlyPrice
    ELSE IF t = "purchase" /\ hasProduct THEN price
    ELSE amount

\* one create_object("Order", ...) with status pending; the objectId is the next
\* unused one
CreateObjectOrder(o, t, hasProduct, amount) ==
    /\ orders[o].status = "absent"
    /\ o <= limit
    /\ \A q \in Orders : q < o => orders[q].status # "absent"
    /\ orders' = [orders EXCEPT ![o] =
          [NoOrder EXCEPT !.status = "pending", !.orderNo = o, !.type = t, !.amount = amount,
                          !.productId = hasProduct]]
    /\ UNCHANGED <<product, user, balance, ledger, env, pc, loc, ops, applied, swept>>

\* create_order for a request body with the given type, product_id and amount,
\* the Product (if any) carrying the given price
create_order_request(o, t, hasProduct, amount, price) ==
    CreateObjectOrder(o, t, hasProduct, OrderAmount(t, hasProduct, amount, price))

\* create_order on the requests of the clients: a plan, the Product at its
\* price, or a recharge of RechargeAmount
create_order(o, t) ==
    create_order_request(o, t, t = "purchase", RechargeAmount, ProductPrice)

\* create_cart_order: a purchase order over the cart's total, without productId
create_cart_order(o, items) ==
    CreateObjectOrder(o, "purchase", FALSE, CartTotal(items))

----------------------------------------------------------------------------
\* Chain verification (web3_client.py)

\* what the chain RPC answers for a transaction hash; rpc = "unset" is the
\* development configuration (no rpc_url), "error" a timeout or transport error
ChainAnswers == [rpc : {"unset", "ok", "error"}, tx : BOOLEAN, receipt : {"none", "0x1", "0x0"},
                 fromOk : BOOLEAN, toOk : BOOLEAN, short : BOOLEAN]

\* get_transaction with a transport error reported as a failed transaction
GetTransactionErrorAsFailed(ans) ==
    IF ans.rpc = "unset" THEN [success |-> TRUE, tx_status |-> "confirmed"]
    ELSE IF ans.rpc = "error" THEN [success |-> FALSE, tx_status |-> "failed"]
    ELSE IF ~ans.tx THEN [success |-> FALSE, tx_status |-> "not_found"]
    ELSE IF ans.receipt = "none" THEN [success |-> TRUE, tx_status |-> "pending"]
    ELSE IF ans.receipt = "0x1" THEN [success |-> TRUE, tx_status |-> "confirmed"]
    ELSE [success |-> TRUE, tx_status |-> "failed"]

\* Web3Client.get_transaction
GetTransaction(ans) ==
    IF ans.rpc = "unset" THEN [success |-> TRUE, tx_status |-> "confirmed"]
    ELSE IF ans.rpc = "error" THEN [success |-> FALSE, tx_status |-> "error"]
    ELSE IF ~ans.tx THEN [success |-> FALSE, tx_status |-> "not_found"]
    ELSE IF ans.receipt = "none" THEN [success |-> TRUE, tx_status |-> "pending"]
    ELSE IF ans.receipt = "0x1" THEN [success |-> TRUE, tx_status |-> "confirmed"]
    ELSE [success |-> TRUE, tx_status |-> "failed"]

\* Web3Client.verify_transfer; `verified` is what result.get("verified") yields,
\* so a result without the key reads as FALSE
VerifyTransfer(ans) ==
    IF ans.rpc = "unset" THEN [success |-> TRUE, verified |-> TRUE, tx_status |-> "confirmed"]
    ELSE LET tx_info == GetTransaction(ans) IN
         IF ~tx_info.success
            THEN [success |-> FALSE, verified |-> FALSE, tx_status |-> tx_info.tx_status]
         ELSE IF tx_info.tx_status = "pending"
            THEN [success |-> TRUE, verified |-> FALSE, tx_status |-> "pending"]
         ELSE IF tx_info.tx_status = "failed"
            THEN [success |-> FALSE, verified |-> FALSE, tx_status |-> "failed"]
         ELSE IF ~ans.fromOk
            THEN [success |-> FALSE, verified |-> FALSE, tx_status |-> "confirmed"]
         ELSE IF ~ans.toOk
            THEN [success |-> FALSE, verified |-> FALSE, tx_status |-> "confirmed"]
         ELSE IF ans.short
            THEN [success |-> FALSE, verified |-> FALSE, tx_status |-> "confirmed"]
         ELSE [success |-> TRUE, verified |-> TRUE, tx_status |-> "confirmed"]

\* payment._verify_tx_status, imported by the sweeper: the verification of one
\* recorded reference against the order's parties and amount
VerifyTxStatus(ans) == VerifyTransfer(ans)

----------------------------------------------------------------------------
\* Web3Client as a function of what the node replies, with the addresses and
\* the value as the strings the JSON-RPC carries.  "null" is the JSON null the
\* node gives as `to` of a contract creation.

Addresses == {"0xab", "0xAB", "0xcd"}

HexValues == {"0x0", "0x1", "0x2"}

Amounts == {0, 1, 2}

\* str.lower()
Lower(a) == IF a = "0xAB" THEN "0xab" ELSE a

\* int(value, 16)
HexToInt(h) == CASE h = "0x0" -> 0 [] h = "0x1" -> 1 [] h = "0x2" -> 2

\* replies of eth_getTransactionByHash and eth_getTransactionReceipt; the fields
\* of a reply without a transaction are not read
NodeReplies ==
    {r \in [rpc : {"unset", "ok", "error"}, found : BOOLEAN, from : Addresses,
            to : Addresses \cup {"null"}, value : HexValues, receipt : {"none", "0x1", "0x0"}] :
        (r.rpc # "ok" \/ ~r.found) =>
            r.from = "0xab" /\ r.to = "0xab" /\ r.value = "0x0" /\ r.receipt = "none"
                /\ (r.rpc # "ok" => ~r.found)}

\* Web3Client.get_transaction
get_transaction(reply) ==
    IF reply.rpc = "unset"
       THEN [success |-> TRUE, tx_status |-> "confirmed", from |-> "0x00", to |-> "0x00",
             value |-> "0x0"]
    ELSE IF reply.rpc = "error"
       THEN [success |-> FALSE, tx_status |-> "error", from |-> "", to |-> "", value |-> "0x0"]
    ELSE IF ~reply.found
       THEN [success |-> FALSE, tx_status |-> "not_found", from |-> "", to |-> "", value |-> "0x0"]
    ELSE [success |-> TRUE,
          tx_status |-> IF reply.receipt = "none" THEN "pending"
                        ELSE IF reply.receipt = "0x1" THEN "confirmed" ELSE "failed",
          from |-> reply.from, to |-> reply.to, value |-> reply.value]

\* Web3Client.verify_transfer; `verified` is what result.get("verified") yields,
\* so a result without the key reads as FALSE.  tx_info.get("to", "") is None for
\* a null `to`, and None.lower() raises: that call returns nothing ("raised").
verify_transfer(reply, from_address, to_address, amount) ==
    IF reply.rpc = "unset" THEN [success |-> TRUE, verified |-> TRUE, tx_status |-> "confirmed"]
    ELSE LET tx_info == get_transaction(reply) IN
         IF ~tx_info.success
            THEN [success |-> FALSE, verified |-> FALSE, tx_status |-> tx_info.tx_status]
         ELSE IF tx_info.tx_status = "pending"
            THEN [success |-> TRUE, verified |-> FALSE, tx_status |-> "pending"]
         ELSE IF tx_info.tx_status = "failed"
            THEN [success |-> FALSE, verified |-> FALSE, tx_status |-> "failed"]
         ELSE IF tx_info.to = "null"
            THEN [success |-> FALSE, verified |-> FALSE, tx_status |-> "raised"]
         ELSE IF Lower(tx_info.from) # Lower(from_address)
            THEN [success |-> FALSE, verified |-> FALSE, tx_status |-> "confirmed"]
         ELSE IF Lower(tx_info.to) # Lower(to_address)
            THEN [success |-> FALSE, verified |-> FALSE, tx_status |-> "confirmed"]
         ELSE IF HexToInt(tx_info.value) < amount
            THEN [success |-> FALSE, verified |-> FALSE, tx_status |-> "confirmed"]
         ELSE [success |-> TRUE, verified |-> TRUE, tx_status |-> "confirmed"]

\* one call of verify_transfer by a client of Web3Client
verify_transfer_call ==
    /\ result = NoResult
    /\ result' = verify_transfer(call.reply, call.from_address, call.to_address, call.amount)
    /\ UNCHANGED <<store, queue, testMode, limit, board, call, redis, authenticated, pc, loc, ops,
                   applied, swept>>

----------------------------------------------------------------------------
\* Recording of a payment reference on a pending order (the order becomes paid
\* and carries txHash, buyerAddress, sellerAddress)
RecordPaymentReference(o) ==
    /\ orders[o].status = "pending"
    /\ UpdateOrder(o, [status |-> "paid", txHash |-> TRUE, paidAt |-> TRUE])
    /\ UNCHANGED <<product, user, balance, ledger, env, pc, loc, ops, applied, swept>>

----------------------------------------------------------------------------
\* Signatures of gateway notifications: the sign field is missing, differs from
\* generate_sign(params, api_key), or equals it
Signs == {"none", "bad", "good"}

\* payment.py: not sign or not verify_sign(data, sign, settings.wechat_api_key)
VerifySign(sign) == sign # "none" /\ sign = "good"

\* WechatPay.verify_callback: no comparison at all in test mode
VerifyCallback(sign) == IF testMode THEN TRUE ELSE sign = "good"

\* wechat_callback (payment.py): a notification with return_code = result_code
\* = SUCCESS for the order number of o
wechat_callback(p, o) ==
    /\ Begin(p)
    /\ \E sign \in Signs :
          IF \/ ~VerifySign(sign)                         \* FAIL: signature
             \/ orders[o].status \in {"absent", "paid"}   \* no such order, or already processed
             THEN UNCHANGED <<pc, loc>>
             ELSE /\ pc' = [pc EXCEPT ![p] = "paid_update"]
                  /\ loc' = [loc EXCEPT ![p] = [NoLoc EXCEPT !.o = o, !.seen = orders[o].status,
                                                               !.via = "wechat_callback",
                                                               !.forged = ~(sign = "good")]]
    /\ UNCHANGED <<store, env, applied, swept>>

\* wechat_callback (member.py): verify_callback, then result_code = SUCCESS
\* leads to the lookup of the MemberOrder named by out_trade_no
member_wechat_callback(p) ==
    /\ Begin(p)
    /\ \E sign \in Signs :
          IF ~VerifyCallback(sign)                        \* FAIL: signature
             THEN UNCHANGED <<pc, loc>>
             ELSE /\ pc' = [pc EXCEPT ![p] = "member_lookup"]
                  /\ loc' = [loc EXCEPT ![p] = [NoLoc EXCEPT !.via = "member_wechat_callback",
                                                               !.forged = ~(sign = "good")]]
    /\ UNCHANGED <<store, env, applied, swept>>

\* member.py: parse_client.query("MemberOrder", {"orderId": out_trade_no});
\* ParseClient defines no method query, so the call raises and the request ends
member_lookup(p) ==
    /\ pc[p] = "member_lookup"
    /\ Return(p)
    /\ UNCHANGED <<store, env, ops, applied, swept>>

\* mock_pay_order (payment.py): only for a pending order, only in test mode
mock_pay_order(p, o) ==
    /\ Begin(p)
    /\ orders[o].status # "absent"
    /\ IF ~testMode \/ orders[o].status # "pending"     \* 403 / 400
          THEN UNCHANGED <<pc, loc>>
          ELSE /\ pc' = [pc EXCEPT ![p] = "paid_update"]
               /\ loc' = [loc EXCEPT ![p] = [NoLoc EXCEPT !.o = o, !.seen = orders[o].status,
                                                            !.via = "mock_pay"]]
    /\ UNCHANGED <<store, env, applied, swept>>

\* both handlers: update_object("Order", id, {status: paid, paidAt, transactionId})
paid_update(p) ==
    /\ pc[p] = "paid_update"
    /\ UpdateOrder(loc[p].o, [status |-> "paid", paidAt |-> TRUE, transactionId |-> TRUE])
    /\ Goto(p, "paid_effect")
    /\ UNCHANGED <<product, user, balance, ledger, env, loc, ops, applied, swept>>

\* both handlers: the effect of the order's type, applied after the status write
paid_effect(p) ==
    LET o == loc[p].o
        t == orders[o].type
    IN
    /\ pc[p] = "paid_effect"
    /\ \/ /\ t = "subscription"                          \* extend membership, mint plan coins
          /\ user' = [user EXCEPT !.isPaid = TRUE, !.paidExpireAt = @ + MonthlyDays]
          /\ MintAndLog(o, "user", "subscription", MonthlyCoins, TRUE)
          /\ UNCHANGED product
       \/ /\ t = "recharge"                              \* 1 yuan = 100 coins
          /\ MintAndLog(o, "user", "recharge", orders[o].amount * 100, TRUE)
          /\ UNCHANGED <<product, user>>
       \/ /\ t = "purchase"                              \* Purchase record, sales + 1
          /\ product' = [product EXCEPT !.purchases = @ + 1, !.sales = @ + 1]
          /\ UNCHANGED <<user, balance, ledger>>
    /\ applied' = [applied EXCEPT ![o] = @ + 1]
    /\ Goto(p, "invite_read")
    /\ UNCHANGED <<orders, env, loc, ops, swept>>

\* both handlers: web3_client.mint catches the RPC's exception and returns
\* success False; the handler reads only tx_hash from the result and writes the
\* IncentiveLog entry as after a mint that succeeded
paid_effect_mint_fails(p) ==
    LET o == loc[p].o
        t == orders[o].type
    IN
    /\ pc[p] = "paid_effect"
    /\ \/ /\ t = "subscription"
          /\ user' = [user EXCEPT !.isPaid = TRUE, !.paidExpireAt = @ + MonthlyDays]
          /\ MintAndLog(o, "user", "subscription", MonthlyCoins, FALSE)
       \/ /\ t = "recharge"
          /\ MintAndLog(o, "user", "recharge", orders[o].amount * 100, FALSE)
          /\ UNCHANGED user
    /\ applied' = [applied EXCEPT ![o] = @ + 1]
    /\ Goto(p, "invite_read")
    /\ UNCHANGED <<orders, product, env, loc, ops, swept>>

\* both handlers: a store call of the effect raises before anything is written
\* (get_user, update_user, create_object) and the exception leaves the handler
paid_effect_raises(p) ==
    /\ pc[p] = "paid_effect"
    /\ Return(p)
    /\ UNCHANGED <<store, env, ops, applied, swept>>

\* the invite first-recharge reward: int(amount * 0.1) in wechat_callback,
\* int(amount * 10) in mock_pay_order
InviteReward(via, amount) == IF via = "mock_pay" THEN amount * 10 ELSE amount \div 10

\* both handlers: get_user and the test of inviterId / firstRechargeRewarded
invite_read(p) ==
    /\ pc[p] = "invite_read"
    /\ IF user.hasInviter /\ ~user.firstRechargeRewarded
          THEN Goto(p, "invite_pay") /\ UNCHANGED loc
          ELSE Return(p)
    /\ UNCHANGED <<store, env, ops, applied, swept>>

\* both handlers: mint to the inviter, log, mark the user as rewarded
invite_pay(p) ==
    /\ pc[p] = "invite_pay"
    /\ MintAndLog(loc[p].o, "inviter", "invite",
                  InviteReward(loc[p].via, orders[loc[p].o].amount), TRUE)
    /\ user' = [user EXCEPT !.firstRechargeRewarded = TRUE]
    /\ Return(p)
    /\ UNCHANGED <<orders, product, env, ops, applied, swept>>

----------------------------------------------------------------------------
\* cancel_order (payment.py), called by an authenticated account; the orders
\* belong to "user"
cancel_order(p, o) ==
    /\ Begin(p)
    /\ orders[o].status # "absent"                      \* else 404
    /\ \E caller \in Accounts :
        IF caller # "user" \/ orders[o].status # "pending"   \* 403 / 400
          THEN UNCHANGED <<pc, loc>>
          ELSE /\ pc' = [pc EXCEPT ![p] = "cancel_update"]
               /\ loc' = [loc EXCEPT ![p] = [NoLoc EXCEPT !.o = o, !.seen = orders[o].status]]
    /\ UNCHANGED <<store, env, applied, swept>>

cancel_update(p) ==
    /\ pc[p] = "cancel_update"
    /\ UpdateOrder(loc[p].o, [status |-> "cancelled"])
    /\ Return(p)
    /\ UNCHANGED <<product, user, balance, ledger, env, ops, applied, swept>>

----------------------------------------------------------------------------
\* Batches of the periodic jobs

RECURSIVE Ascending(_)
Ascending(S) == IF S = {} THEN <<>>
                ELSE LET m == CHOOSE x \in S : \A y \in S : x <= y
                     IN <<m>> \o Ascending(S \ {m})

RECURSIVE Descending(_)
Descending(S) == IF S = {} THEN <<>>
                 ELSE LET m == CHOOSE x \in S : \A y \in S : x >= y
                      IN <<m>> \o Descending(S \ {m})

WithStatus(st) == {o \in Orders : orders[o].status = st}

\* the first n results of a query
Take(s, n) == SubSeq(s, 1, IF Len(s) < n THEN Len(s) ELSE n)

\* the for loop moves to its next order, or the job returns after the last one
Continue(p, label) ==
    IF Len(loc[p].batch) > 1
       THEN /\ pc' = [pc EXCEPT ![p] = label]
            /\ loc' = [loc EXCEPT ![p] = [NoLoc EXCEPT !.batch = Tail(loc[p].batch)]]
       ELSE Return(p)

----------------------------------------------------------------------------
\* process_pending_orders (arq_tasks.py): query the pending orders, ask the
\* gateway about each, mark the paid ones and enqueue process_paid_order
process_pending_orders(p) ==
    /\ Begin(p)
    /\ IF WithStatus("pending") = {}
          THEN UNCHANGED <<pc, loc>>
          ELSE /\ pc' = [pc EXCEPT ![p] = "pending_check"]
               /\ loc' = [loc EXCEPT ![p] = [NoLoc EXCEPT
                                    !.batch = Take(Ascending(WithStatus("pending")), PollLimit)]]
    /\ UNCHANGED <<store, env, applied, swept>>

\* order_id = order.get("orderId"), the number the poller asks the gateway about
OutTradeNo(o) == DictGet(orders[o], "orderId")

\* WechatPay.query_order: SUCCESS for every number in test mode, else the
\* gateway's answer, which is SUCCESS for no number it has no order under;
\* "RAISED" is a request that timed out or could not connect, which the poller's
\* per-order except clause catches
TradeStates(out_trade_no) ==
    IF testMode THEN {"SUCCESS"}
    ELSE IF out_trade_no = 0 THEN {"NOTPAY", "RAISED"}
    ELSE {"SUCCESS", "NOTPAY", "RAISED"}

pending_check(p) ==
    /\ pc[p] = "pending_check"
    /\ \E trade_state \in TradeStates(OutTradeNo(Head(loc[p].batch))) :
          IF trade_state = "SUCCESS"
             THEN Goto(p, "pending_update") /\ UNCHANGED loc
             ELSE Continue(p, "pending_check")
    /\ UNCHANGED <<store, env, ops, applied, swept>>

\* update_object("Order", id, {status: paid}), then enqueue_task
pending_update(p) ==
    LET o == Head(loc[p].batch) IN
    /\ pc[p] = "pending_update"
    /\ UpdateOrder(o, [status |-> "paid"])
    /\ queue' = [queue EXCEPT ![o] = @ + 1]
    /\ Continue(p, "pending_check")
    /\ UNCHANGED <<product, user, balance, ledger, config, ops, applied, swept>>

\* process_paid_order (arq_tasks.py): an Order has no "coins" field, so a
\* recharge order credits nothing; a subscription order goes to
\* complete_member_order
process_paid_order(p, o) ==
    /\ Begin(p)
    /\ queue[o] > 0
    /\ queue' = [queue EXCEPT ![o] = @ - 1]
    /\ IF orders[o].type = "subscription"
          THEN /\ pc' = [pc EXCEPT ![p] = "member_complete"]
               /\ loc' = [loc EXCEPT ![p] = [NoLoc EXCEPT !.o = o]]
          ELSE UNCHANGED <<pc, loc>>
    /\ UNCHANGED <<store, config, applied, swept>>

\* complete_member_order (member.py) for an Order: no MemberOrder has its
\* orderId and it names no planId, so the plan defaults apply (vip, 30 days, no bonus)
member_complete(p) ==
    /\ pc[p] = "member_complete"
    /\ user' = [user EXCEPT !.memberLevel = "vip",
                            !.memberExpireAt = IF user.memberLevel = "vip"
                                                  THEN @ + DefaultMemberDays
                                                  ELSE DefaultMemberDays]
    /\ applied' = [applied EXCEPT ![loc[p].o] = @ + 1]
    /\ Return(p)
    /\ UNCHANGED <<orders, product, balance, ledger, env, ops, swept>>

\* MEMBER_PLANS (wechat_pay.py): the monthly and half-year plans of both levels
MemberPlans ==
    {[level |-> "vip", days |-> 30, bonus |-> 50], [level |-> "vip", days |-> 180, bonus |-> 300],
     [level |-> "svip", days |-> 30, bonus |-> 100], [level |-> "svip", days |-> 180, bonus |-> 600]}

\* expiry dates a user may carry, in days from now: none stored (0), expired 30
\* days ago, or still to come
ExpiryDates == {-30, 0, 10, 30, 200, 400}

\* complete_member_order, step 3: the new expiry, times in days from now; a
\* stored expiry of 0 stands for none
NewExpire(current_expire, current_level, new_level, days) ==
    IF current_expire # 0 /\ current_expire > 0
       THEN (IF current_level = new_level THEN current_expire + days ELSE days)
       ELSE days

\* complete_member_order for a MemberOrder of the given plan: the new level and
\* expiry are stored and the plan's bonus is granted (incentive_service.grant_incentive)
complete_member_order(plan) ==
    /\ ops < MaxOps
    /\ ops' = ops + 1
    /\ user' = [user EXCEPT !.memberLevel = plan.level,
                            !.memberExpireAt = NewExpire(user.memberExpireAt, user.memberLevel,
                                                         plan.level, plan.days)]
    /\ MintAndLog(0, "user", "member_subscribe", plan.bonus, TRUE)
    /\ UNCHANGED <<orders, product, env, pc, loc, applied, swept>>

----------------------------------------------------------------------------
\* process_paid_tx_orders (arq_tasks.py): query the paid orders, newest first
process_paid_tx_orders(p) ==
    /\ Begin(p)
    /\ IF WithStatus("paid") = {}
          THEN UNCHANGED <<pc, loc>>
          ELSE /\ pc' = [pc EXCEPT ![p] = "sweep_verify"]
               /\ loc' = [loc EXCEPT ![p] = [NoLoc EXCEPT
                                    !.batch = Take(Descending(WithStatus("paid")), SweepLimit)]]
    /\ UNCHANGED <<store, env, applied, swept>>

\* the branch with not_found taken for a failed transaction
SweepBranchNotFoundFails(o, r) ==
    IF r.tx_status = "confirmed" /\ r.verified
       THEN (IF orders[o].productId THEN "sweep_product" ELSE "sweep_complete")
    ELSE IF r.tx_status \in {"failed", "not_found"} THEN "sweep_fail"
    ELSE "continue"

\* where the sweeper goes with a verification result
SweepBranch(o, r) ==
    IF r.tx_status = "confirmed" /\ r.verified
       THEN (IF orders[o].productId THEN "sweep_product" ELSE "sweep_complete")
    ELSE IF r.tx_status = "failed" THEN "sweep_fail"
    ELSE "continue"

\* an order without txHash is skipped; else the reference is verified
sweep_verify(p) ==
    LET o == Head(loc[p].batch) IN
    /\ pc[p] = "sweep_verify"
    /\ IF ~orders[o].txHash
          THEN Continue(p, "sweep_verify")
          ELSE \E ans \in ChainAnswers :
                  LET r == VerifyTxStatus(ans) IN
                  /\ pc' = [pc EXCEPT ![p] = "sweep_decide"]
                  /\ loc' = [loc EXCEPT ![p].vr = r.tx_status, ![p].verified = r.verified,
                                         ![p].rpc = ans.rpc]
    /\ UNCHANGED <<store, env, ops, applied, swept>>

\* the branch on verify_result
sweep_decide(p) ==
    LET o == Head(loc[p].batch)
        to == SweepBranch(o, [tx_status |-> loc[p].vr, verified |-> loc[p].verified])
    IN
    /\ pc[p] = "sweep_decide"
    /\ IF to = "continue" THEN Continue(p, "sweep_verify")
                          ELSE Goto(p, to) /\ UNCHANGED loc
    /\ UNCHANGED <<store, env, ops, applied, swept>>

\* update_object("Product", id, {owner: buyer, sales: Increment 1})
sweep_product(p) ==
    /\ pc[p] = "sweep_product"
    /\ product' = [product EXCEPT !.owner = "buyer", !.sales = @ + 1]
    /\ swept' = [swept EXCEPT ![Head(loc[p].batch)] = @ + 1]
    /\ Goto(p, "sweep_complete")
    /\ UNCHANGED <<orders, user, balance, ledger, env, loc, ops, applied>>

\* update_object("Order", id, {status: completed, completedAt})
sweep_complete(p) ==
    /\ pc[p] = "sweep_complete"
    /\ UpdateOrder(Head(loc[p].batch), [status |-> "completed", completedAt |-> TRUE])
    /\ Continue(p, "sweep_verify")
    /\ UNCHANGED <<product, user, balance, ledger, env, ops, applied, swept>>

\* update_object("Order", id, {status: payment_failed})
sweep_fail(p) ==
    /\ pc[p] = "sweep_fail"
    /\ UpdateOrder(Head(loc[p].batch), [status |-> "payment_failed"])
    /\ Continue(p, "sweep_verify")
    /\ UNCHANGED <<product, user, balance, ledger, env, ops, applied, swept>>

\* the raised exception leaves the loop and ends the job
sweep_complete_aborts(p) ==
    /\ pc[p] = "sweep_complete"
    /\ Return(p)
    /\ UNCHANGED <<store, env, ops, applied, swept>>

\* the order write of the sweeper raises after the product was updated; the
\* exception is logged and the loop goes on
sweep_complete_raises(p) ==
    /\ pc[p] = "sweep_complete"
    /\ Continue(p, "sweep_verify")
    /\ UNCHANGED <<store, env, ops, applied, swept>>

\* the verification call raises
sweep_verify_raises(p) ==
    /\ pc[p] = "sweep_verify"
    /\ orders[Head(loc[p].batch)].txHash
    /\ Continue(p, "sweep_verify")
    /\ UNCHANGED <<store, env, ops, applied, swept>>

\* the product write raises
sweep_product_raises(p) ==
    /\ pc[p] = "sweep_product"
    /\ Continue(p, "sweep_verify")
    /\ UNCHANGED <<store, env, ops, applied, swept>>

\* the write of payment_failed raises
sweep_fail_raises(p) ==
    /\ pc[p] = "sweep_fail"
    /\ Continue(p, "sweep_verify")
    /\ UNCHANGED <<store, env, ops, applied, swept>>

\* the poller's order write raises: logged by the per-order except clause
pending_update_raises(p) ==
    /\ pc[p] = "pending_update"
    /\ Continue(p, "pending_check")
    /\ UNCHANGED <<store, env, ops, applied, swept>>

\* the next cron period: the handlers of the last one have returned
NextPeriod ==
    /\ ops > 0
    /\ \A p \in Procs : pc[p] = "idle"
    /\ ops' = 0
    /\ UNCHANGED <<store, env, pc, loc, applied, swept>>

----------------------------------------------------------------------------
\* Web3 login (auth.py): the nonce is issued with SETNX, read with GET when the
\* signed message comes back, and deleted after the signature was verified.

\* web3_get_nonce / _generate_unique_nonce: SETNX of a fresh nonce, or 500 when
\* every attempt collides
web3_get_nonce(p) ==
    /\ Begin(p)
    /\ \E n \in Nonces :
          IF redis[n] = "unissued"
             THEN redis' = [redis EXCEPT ![n] = "stored"]
             ELSE UNCHANGED redis
    /\ UNCHANGED <<store, queue, testMode, limit, board, call, result, authenticated, pc, loc, applied, swept>>

\* the key's expiry after 15 minutes
nonce_expires(n) ==
    /\ redis[n] = "stored"
    /\ redis' = [redis EXCEPT ![n] = "deleted"]
    /\ UNCHANGED <<store, queue, testMode, limit, board, call, result, authenticated, pc, loc, ops,
                   applied, swept>>

\* _verify_web3_signature, steps 1-5: GET nonce:{nonce}; a stored nonce of the
\* address goes on to the signature, which is verified without another await
web3_login(p, n) ==
    /\ Begin(p)
    /\ \E sign \in {"bad", "good"}, password \in BOOLEAN :
          IF redis[n] # "stored"
             THEN /\ pc' = [pc EXCEPT ![p] = "login_old_format"]
                  /\ loc' = [loc EXCEPT ![p] = [NoLoc EXCEPT !.o = n, !.seen = redis[n]]]
          ELSE IF sign # "good"
             THEN UNCHANGED <<pc, loc>>
          ELSE /\ pc' = [pc EXCEPT ![p] = "login_delete"]
               /\ loc' = [loc EXCEPT ![p] = [NoLoc EXCEPT !.o = n, !.seen = redis[n],
                                                           !.verified = password]]
    /\ UNCHANGED <<store, env, applied, swept>>

\* step 4: GET web3_nonce:{address}, a key nothing writes: 400
login_old_format(p) ==
    /\ pc[p] = "login_old_format"
    /\ Return(p)
    /\ UNCHANGED <<store, env, ops, applied, swept>>

\* steps 6-7: DELETE of the key, then the password checks; the request that
\* passes them is authenticated
login_delete(p) ==
    /\ pc[p] = "login_delete"
    /\ redis' = [redis EXCEPT ![loc[p].o] = "deleted"]
    /\ authenticated' = [authenticated EXCEPT ![loc[p].o] = IF loc[p].verified THEN @ + 1 ELSE @]
    /\ Return(p)
    /\ UNCHANGED <<store, queue, testMode, limit, board, call, result, ops, applied, swept>>

----------------------------------------------------------------------------
\* The daily login reward (POST /incentive/daily) of the one user

MaxDays == 2                \* calendar days a behaviour runs through
DailyLoginNormal == 5
DailyLoginPaid == 10

\* claim_daily_reward, step 1: check_daily_claim is EXISTS daily_claim:{today}:{user};
\* a claimed day answers 400
claim_daily_reward(p) ==
    /\ Begin(p)
    /\ IF daily.today \in daily.claimed
          THEN UNCHANGED pc
          ELSE Goto(p, "daily_grant")
    /\ UNCHANGED <<store, env, loc, applied, swept>>

\* step 2: grant_daily_login sends the coins and writes the IncentiveLog entry
\* with the transfer's outcome; a failed transfer answers 500
daily_grant(p) ==
    /\ pc[p] = "daily_grant"
    /\ \E mintOk \in BOOLEAN :
          /\ MintAndLog(daily.today, "user", "daily_login",
                        IF user.memberLevel \in {"vip", "svip"} THEN DailyLoginPaid
                                                                ELSE DailyLoginNormal,
                        mintOk)
          /\ IF mintOk THEN Goto(p, "daily_flag") /\ UNCHANGED loc ELSE Return(p)
    /\ UNCHANGED <<orders, product, user, env, ops, applied, swept>>

\* step 3: set_daily_claim_flag is SET daily_claim:{today}:{user} with the day
\* read again; the key outlives its day
daily_flag(p) ==
    /\ pc[p] = "daily_flag"
    /\ daily' = [daily EXCEPT !.claimed = @ \cup {daily.today}]
    /\ Return(p)
    /\ UNCHANGED <<store, queue, testMode, limit, task, call, result, redis, authenticated, ops,
                   applied, swept>>

\* datetime.now() passes midnight
midnight ==
    /\ daily.today < MaxDays
    /\ daily' = [daily EXCEPT !.today = @ + 1]
    /\ UNCHANGED <<store, queue, testMode, limit, task, call, result, redis, authenticated, pc,
                   loc, ops, applied, swept>>

----------------------------------------------------------------------------
\* The AI task (tasks.py): claim, completion by a worker, status callback

TaskStatus == {"pending", "processing", "completed", "failed", "rewarded"}
TaskReward == 1

\* writes of the task leave everything else alone
TaskOnly == UNCHANGED <<store, queue, testMode, limit, daily, call, result, redis, authenticated,
                        ops, applied, swept>>

\* claim_task: query of the task; a task not pending or with an executor is refused
claim_task(p, executor) ==
    /\ Begin(p)
    /\ IF task.status # "pending" \/ task.executor # "none"
          THEN UNCHANGED <<pc, loc>>
          ELSE /\ Goto(p, "claim_update")
               /\ loc' = [loc EXCEPT ![p] = [NoLoc EXCEPT !.via = executor]]
    /\ UNCHANGED <<store, env, applied, swept>>

\* claim_task: update_object with status PROCESSING and the executor
claim_update(p) ==
    /\ pc[p] = "claim_update"
    /\ task' = [status |-> "processing", executor |-> loc[p].via]
    /\ Return(p)
    /\ TaskOnly

\* complete_task, steps 1-2: query of the task, the status checks and the
\* verification of the results (IPFS, RustFS or URL fetches)
complete_task(p, executor) ==
    /\ Begin(p)
    /\ \E valid \in BOOLEAN :
          IF task.status = "rewarded" \/ task.status \notin {"pending", "processing"} \/ ~valid
             THEN UNCHANGED <<pc, loc>>
             ELSE /\ Goto(p, "complete_update")
                  /\ loc' = [loc EXCEPT ![p] = [NoLoc EXCEPT !.via = executor]]
    /\ UNCHANGED <<store, env, applied, swept>>

\* step 3: update_object with status COMPLETED and the request's executor
complete_update(p) ==
    /\ pc[p] = "complete_update"
    /\ task' = [status |-> "completed", executor |-> loc[p].via]
    /\ Goto(p, "complete_reward")
    /\ UNCHANGED loc
    /\ TaskOnly

\* step 4: query_users by the executor's address and grant_task_reward; a
\* successful grant goes on to mark the task
complete_reward(p) ==
    /\ pc[p] = "complete_reward"
    /\ \E found \in BOOLEAN, mintOk \in BOOLEAN :
          IF found
             THEN /\ MintAndLog(0, loc[p].via, "task", TaskReward, mintOk)
                  /\ IF mintOk THEN Goto(p, "complete_mark") /\ UNCHANGED loc ELSE Return(p)
             ELSE /\ UNCHANGED <<balance, ledger>>
                  /\ Return(p)
    /\ UNCHANGED <<orders, product, user, env, ops, applied, swept>>

\* step 4, after the grant: update_object with status REWARDED
complete_mark(p) ==
    /\ pc[p] = "complete_mark"
    /\ task' = [task EXCEPT !.status = "rewarded"]
    /\ Return(p)
    /\ TaskOnly

\* update_task_status: get_object of the task
update_task_status(p, status) ==
    /\ Begin(p)
    /\ Goto(p, "status_update")
    /\ loc' = [loc EXCEPT ![p] = [NoLoc EXCEPT !.seen = status]]
    /\ UNCHANGED <<store, env, applied, swept>>

\* update_task_status: update_object with the requested status
status_update(p) ==
    /\ pc[p] = "status_update"
    /\ task' = [task EXCEPT !.status = loc[p].seen]
    /\ IF loc[p].seen = "completed"
          THEN Goto(p, "status_reward") /\ UNCHANGED loc
          ELSE Return(p)
    /\ TaskOnly

\* update_task_status, status COMPLETED: mint to the task's designer and the
\* IncentiveLog entry
status_reward(p) ==
    /\ pc[p] = "status_reward"
    /\ \E mintOk \in BOOLEAN : MintAndLog(0, "user", "task", TaskReward, mintOk)
    /\ Return(p)
    /\ UNCHANGED <<orders, product, user, env, ops, applied, swept>>

----------------------------------------------------------------------------
\* The interactive verification of a recorded reference (POST
\* /orders/{id}/verify-payment): the settlement of one paid order with the
\* bounded poll, the caller waiting for the response.

MaxPolls == 3               \* verification calls of one request

\* the request loads the order; only a paid order with a reference is verified
verify_payment(p, o) ==
    /\ Begin(p)
    /\ IF orders[o].status = "paid" /\ orders[o].txHash
          THEN /\ pc' = [pc EXCEPT ![p] = "verify_poll"]
               /\ loc' = [loc EXCEPT ![p] = [NoLoc EXCEPT !.o = o, !.seen = orders[o].status]]
          ELSE UNCHANGED <<pc, loc>>
    /\ UNCHANGED <<store, env, applied, swept>>

\* the poll without its count
verify_poll_unbounded(p) ==
    /\ pc[p] = "verify_poll"
    /\ \E ans \in ChainAnswers :
          LET r == VerifyTxStatus(ans) IN
          /\ loc' = [loc EXCEPT ![p].vr = r.tx_status, ![p].verified = r.verified,
                                 ![p].rpc = ans.rpc, ![p].polls = (@ + 1) % (MaxPolls + 2)]
          /\ IF r.tx_status = "pending"
                THEN UNCHANGED pc
                ELSE Goto(p, "verify_settle")
    /\ UNCHANGED <<store, env, ops, applied, swept>>

\* one verification call; an answer of pending is asked again after the fixed
\* delay, MaxPolls calls at most
verify_poll(p) ==
    /\ pc[p] = "verify_poll"
    /\ \E ans \in ChainAnswers :
          LET r == VerifyTxStatus(ans) IN
          /\ loc' = [loc EXCEPT ![p].vr = r.tx_status, ![p].verified = r.verified,
                                 ![p].rpc = ans.rpc, ![p].polls = @ + 1]
          /\ IF r.tx_status = "pending" /\ loc[p].polls + 1 < MaxPolls
                THEN UNCHANGED pc
                ELSE Goto(p, "verify_settle")
    /\ UNCHANGED <<store, env, ops, applied, swept>>

\* the transition table on the last answer: pending, not_found and an error
\* are answered to the caller with the order as it is
verify_settle(p) ==
    /\ pc[p] = "verify_settle"
    /\ IF loc[p].vr = "confirmed" /\ loc[p].verified
          THEN Goto(p, IF orders[loc[p].o].productId THEN "verify_effect" ELSE "verify_complete")
               /\ UNCHANGED loc
       ELSE IF loc[p].vr \in {"failed", "confirmed"}
          THEN Goto(p, "verify_fail") /\ UNCHANGED loc
       ELSE Return(p)
    /\ UNCHANGED <<store, env, ops, applied, swept>>

\* the domain effect of a purchase: the product's owner is set to the buyer
verify_effect(p) ==
    /\ pc[p] = "verify_effect"
    /\ product' = [product EXCEPT !.owner = "buyer"]
    /\ Goto(p, "verify_complete")
    /\ UNCHANGED <<orders, user, balance, ledger, env, loc, ops, applied, swept>>

verify_complete(p) ==
    /\ pc[p] = "verify_complete"
    /\ UpdateOrder(loc[p].o, [status |-> "completed", completedAt |-> TRUE])
    /\ Return(p)
    /\ UNCHANGED <<product, user, balance, ledger, env, ops, applied, swept>>

verify_fail(p) ==
    /\ pc[p] = "verify_fail"
    /\ UpdateOrder(loc[p].o, [status |-> "payment_failed", failureReason |-> TRUE])
    /\ Return(p)
    /\ UNCHANGED <<product, user, balance, ledger, env, ops, applied, swept>>

----------------------------------------------------------------------------
\* the gateway path: orders paid through WeChat notifications, the simulated
\* payment and the pending-order poller
NextGateway ==
    \/ \E o \in Orders, t \in OrderTypes : create_order(o, t)
    \/ \E p \in Procs, o \in Orders : wechat_callback(p, o)
    \/ \E p \in Procs : member_wechat_callback(p)
    \/ \E p \in Procs : member_lookup(p)
    \/ \E p \in Procs, o \in Orders : mock_pay_order(p, o)
    \/ \E p \in Procs : paid_update(p)
    \/ \E p \in Procs : paid_effect(p)
    \/ \E p \in Procs : invite_read(p)
    \/ \E p \in Procs : invite_pay(p)
    \/ \E p \in Procs, o \in Orders : cancel_order(p, o)
    \/ \E p \in Procs : cancel_update(p)
    \/ \E p \in Procs : process_pending_orders(p)
    \/ \E p \in Procs : pending_check(p)
    \/ \E p \in Procs : pending_update(p)
    \/ \E p \in Procs, o \in Orders : process_paid_order(p, o)
    \/ \E p \in Procs : member_complete(p)

SpecGateway == Init /\ [][NextGateway]_vars

\* the whole pipeline: the gateway path, and orders paid on the chain and
\* settled by the sweeper
Next ==
    \/ NextGateway
    \/ \E o \in Orders : RecordPaymentReference(o)
    \/ \E p \in Procs : process_paid_tx_orders(p)
    \/ \E p \in Procs : sweep_verify(p)
    \/ \E p \in Procs : sweep_decide(p)
    \/ \E p \in Procs : sweep_product(p)
    \/ \E p \in Procs : sweep_complete(p)
    \/ \E p \in Procs : sweep_fail(p)

Spec == Init /\ [][Next]_vars

\* the whole pipeline with store calls that may raise
NextFaults ==
    \/ Next
    \/ \E p \in Procs : paid_effect_raises(p)
    \/ \E p \in Procs : sweep_complete_raises(p)

SpecFaults == Init /\ [][NextFaults]_vars

\* the steps of the sweeper
NextSweep ==
    \/ \E p \in Procs : sweep_verify(p)
    \/ \E p \in Procs : sweep_decide(p)
    \/ \E p \in Procs : sweep_product(p)
    \/ \E p \in Procs : sweep_complete(p)
    \/ \E p \in Procs : sweep_fail(p)

\* the periodic jobs on a store of two orders, with calls that may raise; the
\* cron schedule staggers the two jobs, and one run is in progress at a time
NextBatch ==
    \/ \E o \in Orders, t \in OrderTypes : create_order(o, t)
    \/ \E o \in Orders : RecordPaymentReference(o)
    \/ process_pending_orders(1)
    \/ \E p \in Procs : pending_check(p)
    \/ \E p \in Procs : pending_update(p)
    \/ \E p \in Procs : pending_update_raises(p)
    \/ process_paid_tx_orders(1)
    \/ NextSweep
    \/ \E p \in Procs : sweep_verify_raises(p)
    \/ \E p \in Procs : sweep_product_raises(p)
    \/ \E p \in Procs : sweep_complete_raises(p)
    \/ \E p \in Procs : sweep_fail_raises(p)

SpecBatch == InitBatch /\ [][NextBatch]_vars

\* chain-paid purchase orders and the sweeper's cron job, one run at a time,
\* period after period
NextCron ==
    \/ \E o \in Orders : create_order(o, "purchase")
    \/ \E o \in Orders : RecordPaymentReference(o)
    \/ process_paid_tx_orders(1)
    \/ NextSweep
    \/ NextPeriod

\* every period comes, the cron job is started in it, and a started run goes on
CronFairness ==
    /\ WF_vars(NextPeriod)
    /\ WF_vars(process_paid_tx_orders(1))
    /\ WF_vars(NextSweep)

SpecCron == InitMany /\ [][NextCron]_vars /\ CronFairness

\* the gateway path with mints that fail
NextMint ==
    \/ NextGateway
    \/ \E p \in Procs : paid_effect_mint_fails(p)

SpecMint == Init /\ [][NextMint]_vars

\* member subscriptions completed for users of every level and expiry
InitMember ==
    /\ InitAuth
    /\ call = NoCall
    /\ result = NoResult
    /\ limit = 1
    /\ orders = [o \in Orders |-> NoOrder]
    /\ product = [owner |-> "seller", sales |-> 0, purchases |-> 0]
    /\ user \in {[paidExpireAt |-> 0, isPaid |-> FALSE, memberExpireAt |-> e,
                  memberLevel |-> l, hasInviter |-> FALSE,
                  firstRechargeRewarded |-> FALSE] :
                    e \in ExpiryDates, l \in {"normal", "vip", "svip"}}
    /\ user.memberLevel = "normal" => user.memberExpireAt <= 0
    /\ balance = [a \in Accounts |-> 0]
    /\ ledger = EmptyBag
    /\ queue = [o \in Orders |-> 0]
    /\ testMode = TRUE
    /\ pc = [p \in Procs |-> "idle"]
    /\ loc = [p \in Procs |-> NoLoc]
    /\ ops = 0
    /\ applied = [o \in Orders |-> 0]
    /\ swept = [o \in Orders |-> 0]

NextMember == \E plan \in MemberPlans : complete_member_order(plan)

SpecMember == InitMember /\ [][NextMember]_vars

\* daily claims of the one user, in any interleaving, over the days
NextDaily ==
    \/ \E p \in Procs : claim_daily_reward(p)
    \/ \E p \in Procs : daily_grant(p)
    \/ \E p \in Procs : daily_flag(p)
    \/ midnight

SpecDaily == Init /\ [][NextDaily]_vars

\* claims, completions and status callbacks of the one AI task
NextTasks ==
    \/ \E p \in Procs, executor \in Workers : claim_task(p, executor)
    \/ \E p \in Procs : claim_update(p)
    \/ \E p \in Procs, executor \in Workers : complete_task(p, executor)
    \/ \E p \in Procs : complete_update(p)
    \/ \E p \in Procs : complete_reward(p)
    \/ \E p \in Procs : complete_mark(p)
    \/ \E p \in Procs, status \in TaskStatus : update_task_status(p, status)
    \/ \E p \in Procs : status_update(p)
    \/ \E p \in Procs : status_reward(p)

SpecTasks == Init /\ [][NextTasks]_vars

\* order creation for every request body and every product price
NextCreate ==
    \/ \E o \in Orders, t \in OrderTypes, hasProduct \in BOOLEAN,
          amount \in RequestAmounts, price \in RequestAmounts :
            create_order_request(o, t, hasProduct, amount, price)
    \/ \E o \in Orders, items \in Carts : create_cart_order(o, items)

SpecCreate == InitBatch /\ [][NextCreate]_vars

\* Web3 logins: requests for a nonce and login requests, in any interleaving
NextLogin ==
    \/ \E p \in Procs : web3_get_nonce(p)
    \/ \E n \in Nonces : nonce_expires(n)
    \/ \E p \in Procs, n \in Nonces : web3_login(p, n)
    \/ \E p \in Procs : login_old_format(p)
    \/ \E p \in Procs : login_delete(p)

SpecLogin == Init /\ [][NextLogin]_vars

\* concurrent interactive verifications; a request that was started runs to its
\* response
NextInteractive ==
    \/ \E o \in Orders, t \in {"recharge", "purchase"} : create_order(o, t)
    \/ \E o \in Orders : RecordPaymentReference(o)
    \/ \E p \in Procs, o \in Orders : verify_payment(p, o)
    \/ \E p \in Procs : verify_poll(p)
    \/ \E p \in Procs : verify_settle(p)
    \/ \E p \in Procs : verify_effect(p)
    \/ \E p \in Procs : verify_complete(p)
    \/ \E p \in Procs : verify_fail(p)

InteractiveFairness ==
    \A p \in Procs :
        /\ WF_vars(verify_poll(p))
        /\ WF_vars(verify_settle(p))
        /\ WF_vars(verify_effect(p))
        /\ WF_vars(verify_complete(p))
        /\ WF_vars(verify_fail(p))

\* the gateway's test mode and the inviter take no part in the verification
InitInteractive == Init /\ testMode /\ ~user.hasInviter

SpecInteractive == InitInteractive /\ [][NextInteractive]_vars /\ InteractiveFairness

\* Web3Client.verify_transfer on its own: every reply of the node against every
\* expectation of the caller
InitVerify ==
    /\ InitOrders(1)
    /\ InitAuth
    /\ call \in [reply : NodeReplies, from_address : Addresses, to_address : Addresses,
                 amount : Amounts]
    /\ result = NoResult

NextVerify == verify_transfer_call

SpecVerify == InitVerify /\ [][NextVerify]_vars

----------------------------------------------------------------------------
\* Properties

Rank(st) == CASE st = "pending" -> 0 [] st = "paid" -> 1 [] st = "completed" -> 2 [] OTHER -> 3

InSequence == {"pending", "paid", "completed"}

Terminal == {"completed", "payment_failed", "cancelled"}

\* the coroutine p takes this step
Steps(p) == pc'[p] # pc[p] \/ loc'[p] # loc[p]

\* C1: concurrent settlement runs on one paid order whose verification is
\* confirmed and verified apply the order's product effect (owner set, sales
\* increment) once in total
C1_ConcurrentSettleOnce == \A o \in Orders : swept[o] <= 1

\* C2: a settle invocation that found its order completed leaves the order
\* completed and applies nothing for it, however often it is repeated
C2_CompletedIdempotent ==
    [][\A p \in Procs : (loc[p].seen = "completed" /\ Steps(p)) =>
          /\ orders'[loc[p].o].status = "completed"
          /\ applied'[loc[p].o] = applied[loc[p].o]
          /\ swept'[loc[p].o] = swept[loc[p].o]
          /\ ledger' = ledger]_vars

\* C3: an order never moves backwards in pending, paid, completed, and it
\* becomes cancelled only from pending
C3_NoRegression ==
    [][\A o \in Orders :
          /\ (orders[o].status \in InSequence /\ orders'[o].status \in InSequence)
                => Rank(orders'[o].status) >= Rank(orders[o].status)
          /\ (orders'[o].status = "cancelled" /\ orders[o].status # "cancelled")
                => orders[o].status = "pending"]_vars

\* C4: completed, payment_failed and cancelled are absorbing
C4_TerminalAbsorbing ==
    [][\A o \in Orders : orders[o].status \in Terminal =>
          orders'[o].status = orders[o].status]_vars

\* C5: a sweeper holding a confirmed but unverified result (amount or party
\* mismatch) goes on to persist payment_failed, and applies no effect
C5_MismatchFails ==
    [][\A p \in Procs :
          (pc[p] = "sweep_decide" /\ loc[p].vr = "confirmed" /\ ~loc[p].verified /\ Steps(p))
             => (pc'[p] = "sweep_fail" /\ UNCHANGED store)]_vars

\* C6: a verification whose chain call timed out or failed to connect leaves
\* the order, the product, the balances and the ledger as they were: the
\* sweeper goes to its next order without any write
C6_TimeoutLeavesOrder ==
    [][\A p \in Procs :
          (loc[p].rpc = "error" /\ Steps(p))
             => (UNCHANGED store /\ pc'[p] \in {"sweep_verify", "idle"})]_vars

\* C6 witness: a sweeper has verified a paid order and the chain call timed out
C6_Witness ==
    \E p \in Procs : /\ pc[p] = "sweep_decide"
                     /\ loc[p].rpc = "error"
                     /\ orders[Head(loc[p].batch)].status = "paid"
                     /\ orders[Head(loc[p].batch)].txHash

\* C7: however often a successful notification is processed, the order's
\* credit is applied at most once and at most one ledger entry is written for it
C7_NoDoubleCredit == \A o \in Orders : applied[o] <= 1 /\ LedgerCountFor(o, "user") <= 1

\* C8: a recharge order the sweep has completed has exactly one recharge
\* ledger entry and its user was credited
C8_SweepCreditsRecharge ==
    \A o \in Orders : (orders[o].type = "recharge" /\ orders[o].status = "completed")
                         => (LedgerCount(o, "recharge") = 1 /\ balance["user"] > 0)

\* C9: the ledger holds at most one entry per order and kind
C9_LedgerOncePerOrderKind ==
    \A o \in Orders : \A t \in {"subscription", "recharge", "invite"} : LedgerCount(o, t) <= 1

\* C10: no order is left marked paid by a gateway notification with its effect
\* unapplied and no handler about to apply it
C10_NoPaidWithoutEffect ==
    \A o \in Orders : (orders[o].status = "paid" /\ orders[o].transactionId /\ applied[o] = 0)
                         => \E p \in Procs : loc[p].o = o /\ pc[p] = "paid_effect"

\* C11: cancel_order writes cancelled only onto an order that is pending, and
\* an invocation for an order in any other state ends at once with the order,
\* and everything else in the store, unchanged
C11_CancelOnlyPending ==
    [][\A p \in Procs :
          /\ (pc[p] = "cancel_update" /\ Steps(p)) => orders[loc[p].o].status = "pending"
          /\ \A o \in Orders :
                (cancel_order(p, o) /\ orders[o].status # "pending")
                   => UNCHANGED <<store, pc, loc>>]_vars

\* C12: no handler goes past its signature check with a notification whose
\* signature is missing or does not verify, so such a notification reaches
\* neither the order lookup nor any write
C12_SignatureFirst == \A p \in Procs : pc[p] # "idle" => ~loc[p].forged

\* C13: a settlement attempt that found its order cancelled or payment_failed
\* changes neither the order nor any product, user, balance or ledger record
C13_InvalidStateRejected ==
    [][\A p \in Procs :
          (loc[p].seen \in {"cancelled", "payment_failed"} /\ Steps(p))
             => UNCHANGED store]_vars

\* C17: an order that is paid, completed or payment_failed carries paidAt, and
\* an order that is still pending carries none
C17_PaidAtIffPaid ==
    \A o \in Orders :
       /\ orders[o].status \in {"paid", "completed", "payment_failed"} => orders[o].paidAt
       /\ orders[o].status \in {"absent", "pending"} => ~orders[o].paidAt

\* C18: an order carries completedAt exactly when its status is completed
C18_CompletedAtIffCompleted ==
    \A o \in Orders : orders[o].completedAt <=> orders[o].status = "completed"

\* C19: an order carries a failureReason exactly when its status is
\* payment_failed
C19_FailureReasonIffFailed ==
    \A o \in Orders : orders[o].failureReason <=> orders[o].status = "payment_failed"

\* the order carries a payment reference and waits for the sweeper
PaidWithReference(o) == orders[o].status = "paid" /\ orders[o].txHash

\* C14: every paid order with a payment reference eventually becomes completed
\* or payment_failed
C14_PaidEventuallySettled ==
    \A o \in Orders :
       PaidWithReference(o) ~> (orders[o].status \in {"completed", "payment_failed"})

\* every verification result a sweeper holds for order o is confirmed and verified
VerifiesConfirmed(o) ==
    \A p \in Procs :
       (pc[p] \in {"sweep_decide", "sweep_product", "sweep_complete", "sweep_fail"}
           /\ Head(loc[p].batch) = o)
          => (loc[p].vr = "confirmed" /\ loc[p].verified)

\* C15: a paid order with a payment reference whose verification from now on
\* always returns confirmed and verified is eventually completed, whatever
\* other orders are in the store
C15_NoStarvation ==
    \A o \in Orders :
       []((PaidWithReference(o) /\ []VerifiesConfirmed(o)) => <>(orders[o].status = "completed"))

\* positions inside the loops of the two periodic jobs
JobLabels == {"pending_check", "pending_update",
              "sweep_verify", "sweep_decide", "sweep_product", "sweep_complete", "sweep_fail"}

\* C16: whatever happens to one order of a batch, a raised error included, the
\* job changes no order but the one at hand, goes on with the next order of
\* the batch, and returns only after the last one
C16_BatchIsolation ==
    [][\A p \in Procs : (pc[p] \in JobLabels /\ Steps(p)) =>
          /\ \A o \in Orders : o # Head(loc[p].batch) => orders'[o] = orders[o]
          /\ pc'[p] = "idle" => Len(loc[p].batch) = 1
          /\ loc'[p].batch # loc[p].batch =>
                (pc'[p] = "idle" \/ loc'[p].batch = Tail(loc[p].batch))]_vars

\* C16 witness: in the first job of the behaviour, a sweep over the batch
\* <<2, 1>>, the order write for order 2 raised after the product write, and
\* the sweeper is at order 1
C16_Witness ==
    \E p \in Procs : /\ ops = 1
                     /\ pc[p] = "sweep_verify"
                     /\ loc[p].batch = <<1>>
                     /\ PaidWithReference(2) /\ orders[2].productId
                     /\ product.owner = "buyer"

CaseClasses == {{"0xab", "0xAB"}, {"0xcd"}}

SameIgnoringCase(a, b) == \E c \in CaseClasses : a \in c /\ b \in c

\* the node answered the call under test
ChainAnswered == result # NoResult /\ call.reply.rpc = "ok"

\* C21: verify_transfer maps every answer of the chain to exactly one of four
\* outcomes: no transaction gives not_found, a transaction without receipt
\* pending, a receipt whose status is not 0x1 failed, a receipt with status 0x1
\* confirmed, and verified holds exactly when the outcome is confirmed, sender
\* and recipient equal the expected addresses up to case and the value is at
\* least the expected amount.
C21_FourOutcomes ==
    ChainAnswered =>
        LET r == call.reply IN
        /\ result.tx_status =
              (IF ~r.found THEN "not_found"
               ELSE IF r.receipt = "none" THEN "pending"
               ELSE IF r.receipt # "0x1" THEN "failed"
               ELSE "confirmed")
        /\ result.verified <=>
              /\ r.found /\ r.receipt = "0x1"
              /\ SameIgnoringCase(r.from, call.from_address)
              /\ SameIgnoringCase(r.to, call.to_address)
              /\ HexToInt(r.value) >= call.amount

\* the order carries a payment reference (the gateway's transactionId or a txHash)
HasReference(o) == orders[o].transactionId \/ orders[o].txHash

\* C22: a step that moves an order from pending to paid persists the payment
\* reference and paidAt in that step, every paid order carries a reference, and
\* a reference once set is never cleared.
C22_PaidCarriesReference ==
    [][\A o \in Orders :
          /\ (orders[o].status = "pending" /\ orders'[o].status = "paid")
                => HasReference(o)' /\ orders'[o].paidAt
          /\ orders'[o].status = "paid" => HasReference(o)'
          /\ HasReference(o) => HasReference(o)']_vars

\* the request of coroutine p is between its first poll and its response
Verifying(p) == pc[p] \in {"verify_poll", "verify_settle", "verify_effect", "verify_complete", "verify_fail"}

\* C23: the interactive verification terminates: a request makes at most
\* MaxPolls verification calls, a request whose last answer is pending returns
\* with the order as it was (paid, left to the sweeper), and every request
\* that was started returns.
C23_BoundedPoll ==
    /\ [](\A p \in Procs : Verifying(p) => loc[p].polls <= MaxPolls)
    /\ [][\A p \in Procs :
            (pc[p] = "verify_settle" /\ loc[p].vr = "pending" /\ Steps(p))
                => pc'[p] = "idle" /\ orders' = orders]_vars
    /\ \A p \in Procs : Verifying(p) ~> pc[p] = "idle"

\* a request returns pending after its last poll with the order still paid
C23_Witness ==
    \E p \in Procs :
        /\ pc[p] = "verify_settle" /\ loc[p].vr = "pending" /\ loc[p].polls = MaxPolls
        /\ orders[loc[p].o].status = "paid"

C25_NonceSingleUse == \A n \in Nonces : authenticated[n] <= 1

\* the state the coroutine p read of the order it is about to write: the status
\* its handler loaded, or the status its job queried for
StateRead(p) ==
    CASE pc[p] \in {"paid_update", "cancel_update"} -> loc[p].seen
      [] pc[p] = "pending_update" -> "pending"
      [] pc[p] \in {"sweep_complete", "sweep_fail"} -> "paid"
      [] OTHER -> "none"

\* the order the coroutine p is about to write
OrderWritten(p) ==
    IF pc[p] \in {"paid_update", "cancel_update"} THEN loc[p].o ELSE Head(loc[p].batch)

\* C26: every write of an order's state is a compare-and-swap on the state that
\* was read: a write whose order is no longer in that state stores nothing.
C26_WritesAreConditional ==
    [][\A p \in Procs :
          (StateRead(p) # "none" /\ Steps(p)
              /\ orders[OrderWritten(p)].status # StateRead(p))
            => orders' = orders]_vars

\* the coroutine p got the answer of a gateway or chain verification after it
\* read the state of the order it is about to write: the poller writes only
\* after its query_order, the sweeper only with a verification result in hand
VerifiedSinceRead(p) ==
    \/ pc[p] = "pending_update"
    \/ pc[p] \in {"sweep_complete", "sweep_fail"} /\ loc[p].vr # "none"

\* C27: in every settlement run the verification call completes before the
\* order's state is read for the read-modify-write: no write of an order's
\* state depends on a read made before the verification was called.
C27_VerifyBeforeRead ==
    [][\A p \in Procs :
          (StateRead(p) # "none" /\ Steps(p)) => ~VerifiedSinceRead(p)]_vars

\* the order kinds whose settlement is logged in the IncentiveLog
LedgerKinds == {"subscription", "recharge"}

\* C28: on the way to completed the domain effect comes first, the ledger entry
\* second and the write of completed last: every order stored as completed has
\* had its effect applied and, where its kind warrants one, its ledger entry
\* written.
C28_EffectsBeforeCompleted ==
    \A o \in Orders :
        orders[o].status = "completed" =>
            /\ applied[o] + swept[o] >= 1
            /\ orders[o].type \in LedgerKinds => LedgerCount(o, orders[o].type) >= 1

\* C29: applying an order's domain effect again (after a completed write that
\* failed, or in a retry) leaves the product's owner and sales, the balances
\* and the membership expiry as the first application left them.
C29_EffectIdempotent ==
    [][\A o \in Orders :
          \/ swept[o] >= 1 /\ swept'[o] > swept[o]
          \/ applied[o] >= 1 /\ applied'[o] > applied[o]
          => product' = product /\ balance' = balance /\ user' = user]_vars

\* C30: settling an order through the gateway's notification and through the
\* simulated payment has the same effects with the same amounts: the invite
\* first-recharge reward minted for an order is the one either handler computes.
C30_SameSettlement ==
    [][\A p \in Procs :
          (pc[p] = "invite_pay" /\ Steps(p)) =>
              LET reward == balance'["inviter"] - balance["inviter"]
                  amount == orders[loc[p].o].amount
              IN /\ reward = InviteReward("wechat_callback", amount)
                 /\ reward = InviteReward("mock_pay", amount)]_vars

\* C31: every order in the store has a strictly positive amount, whatever the
\* request body and the product's price were.
C31_PositiveAmount ==
    \A o \in Orders : orders[o].status # "absent" => orders[o].amount > 0

\* C32: the poller marks an order paid only on the gateway's answer to a query
\* issued with that order's own order number.
C32_PaidOnOwnQuery ==
    [][\A p \in Procs :
          (pc[p] = "pending_update" /\ Steps(p))
            => OutTradeNo(Head(loc[p].batch)) = orders[Head(loc[p].batch)].orderNo]_vars

\* C33: an IncentiveLog entry that records a credit of a settled order exists
\* only if the mint behind it reported success.
C33_LedgerOnlyAfterMint ==
    \A e \in BagToSet(ledger) : e.type \in LedgerKinds => e.minted

\* the invite first-recharge rewards logged for the user's inviter
InviteRewards == SumCopies({e \in BagToSet(ledger) : e.type = "invite"})

\* C34: the inviter is credited the first-recharge reward at most once per
\* user: no reward is minted once firstRechargeRewarded is set, and settlements
\* racing on the flag do not both mint.
C34_InviteRewardOnce ==
    [][/\ user.firstRechargeRewarded => balance'["inviter"] = balance["inviter"]
       /\ InviteRewards' <= 1]_vars

DailyGrants(d) ==
    SumCopies({e \in BagToSet(ledger) : e.type = "daily_login" /\ e.order = d /\ e.minted})

\* C36: the daily login reward is granted at most once per calendar day to a
\* user, whatever the interleaving of claim requests.
C36_DailyOnce == \A d \in 1..MaxDays : DailyGrants(d) <= 1

\* task rewards minted and logged
TaskRewards == SumCopies({e \in BagToSet(ledger) : e.type = "task" /\ e.minted})

\* C37: the completion reward of an AI task is minted and logged at most once,
\* whatever the sequence or interleaving of complete_task and
\* update_task_status calls.
C37_TaskRewardOnce == TaskRewards <= 1

\* C38: a pending task is claimed by at most one worker: a claim writes its
\* executor only on a task that has none.
C38_ClaimOnce ==
    [][\A p \in Procs : (pc[p] = "claim_update" /\ Steps(p)) => task.executor = "none"]_vars

====
